---- MODULE Spec2Model ----
(***************************************************************************)
(* Artifact lifecycle of the MLOps repository: the Airflow training DAG    *)
(* (dags/train_pipeline.py) that writes model.pkl and metrics.json, and    *)
(* the FastAPI inference server (api/main.py) that locates and loads the   *)
(* pair once at startup and then serves health / model-info / predict /    *)
(* predict-batch requests from the process-wide MODEL, MODEL_METADATA and  *)
(* MODEL_LOADED globals.  Spec is the server next to the DAG; SaveSpec is  *)
(* the DAG next to the stand-alone script src/train.py, the other writer   *)
(* of an artifact pair.                                                    *)
(***************************************************************************)
EXTENDS Integers, Sequences, FiniteSets, TLC

(***************************************************************************)
(* Bounds                                                                  *)
(***************************************************************************)
\* number of scheduled DAG runs that are explored
MaxRuns == 1
\* longest batch sent to /predict-batch
MaxBatch == 2

(***************************************************************************)
(* Values                                                                  *)
(***************************************************************************)
\* Python None (main.py:33-34)
None == <<>>
\* the artifact / metrics produced by DAG run r
Dag(r) == <<"dag", r>>
\* the artifact / metrics the slot holds from a DAG run before those explored
PrevVer == Dag(0)
\* the artifact / metrics written by the stand-alone script train.py
ScriptVer == <<"script", 0>>

\* a file on disk: absent, being written (truncated, not yet closed), or whole
Absent == [st |-> "absent", v |-> None]
Partial(ver) == [st |-> "partial", v |-> ver]
Whole(ver) == [st |-> "whole", v |-> ver]

\* directories that hold a model.pkl / metrics.json pair
Dirs == {"rel", "airflow", "app"}
EmptyDir == [pkl |-> Absent, json |-> Absent]

\* possible_paths of load_model, by directory ('models/' and './models/' are
\* the same directory)
possible_paths == <<"rel", "rel", "airflow", "app">>
\* model_dir of save_model
model_dir == "airflow"

\* retries of default_args
retries == 1

\* the four tasks of the DAG in dependency order
Stages == <<"load_data", "train_model", "save_model", "log_results">>
StageIdx(t) == CHOOSE i \in 1..Len(Stages) : Stages[i] = t

\* datasets the CSV file can hold: row count (spread over 3 classes), null
\* cells; 30 rows is the repository's data/dataset.csv
Datasets ==
    { [rows |-> r, nulls |-> b] : r \in {0, 30, 31}, b \in BOOLEAN }
        \ {[rows |-> 0, nulls |-> TRUE], [rows |-> 31, nulls |-> TRUE]}
NoData == [rows |-> 0, nulls |-> FALSE]

\* feature vectors a client sends (0 is the all-zero vector)
Features == {0, 1}
\* labels the artifact answers with
Classes == {"setosa", "virginica"}

VARIABLES
    fs,             \* directory -> [pkl, json] file contents
    MODEL,          \* main.py global MODEL
    MODEL_METADATA, \* main.py global MODEL_METADATA
    MODEL_LOADED,   \* main.py global MODEL_LOADED
    srvPc,          \* position of the startup hook load_model; "done" = serving
    probe,          \* index into possible_paths of the next existence probe
    model_path,     \* index of the chosen candidate, 0 = None
    resp,           \* the response to the latest request, NoResp until it is answered
    running,        \* the request whose handler occupies the event loop, else Idle
    run,            \* number of the current DAG run, 0 before the first
    task,           \* stage -> Airflow task state in the current run
    try_number,     \* attempt number of the task that is running or up for retry, else 0
    savePc,         \* position inside save_model
    xcom,           \* set of XCom keys pushed in the current run
    dataset,        \* value pushed under key 'dataset'
    loadPc,         \* position inside load_data
    data_files,     \* candidates of load_data that os.path.exists found, as indexes
    data_path,      \* load_data's local data_path as an index, 0 = None
    trainPc,        \* position inside train_model
    split,          \* what the latest train_test_split of the run returned
    scriptPc,       \* position of the stand-alone script train.py
    bootCrashRun,   \* history: the run whose save had written model.pkl and failed
                    \* before metrics.json when the server booted, 0 if none
    bootSavedRun    \* history: the run whose save_model had returned with success
                    \* when the server booted, 0 if none

vars == <<fs, MODEL, MODEL_METADATA, MODEL_LOADED, srvPc, probe, model_path,
          resp, running, run, task, try_number, savePc, xcom, dataset, loadPc,
          data_files, data_path, trainPc, split, scriptPc, bootCrashRun, bootSavedRun>>

srvVars == <<MODEL, MODEL_METADATA, MODEL_LOADED, srvPc, probe, model_path, resp,
             running, bootCrashRun, bootSavedRun>>
loadVars == <<loadPc, data_files, data_path>>
trainVars == <<trainPc, split>>
dagVars == <<run, task, try_number, savePc, xcom, dataset, loadVars, trainVars>>

NoResp == [op |-> "none", code |-> 0]
\* no train_test_split has returned in this run
NoSplit == [rows |-> 0, training_samples |-> 0, test_samples |-> 0, shuffle |-> <<0, 0>>]
\* the event loop is between requests
Idle == [op |-> "idle"]

\* what a directory can hold when the processes start: ./models nothing or the
\* pair of an earlier train.py, the slot nothing or the pair of an earlier DAG
\* run, /app/models nothing or a model.pkl that unpickles to None
InitialDir(d) ==
    IF d = "rel" THEN {EmptyDir, [pkl |-> Whole(ScriptVer), json |-> Whole(ScriptVer)]}
    ELSE IF d = model_dir THEN {EmptyDir, [pkl |-> Whole(PrevVer), json |-> Whole(PrevVer)]}
    ELSE {EmptyDir, [pkl |-> Whole(None), json |-> Absent]}

Init ==
    /\ fs \in { f \in [Dirs -> UNION {InitialDir(d) : d \in Dirs}] :
                    \A d \in Dirs : f[d] \in InitialDir(d) }
    /\ MODEL = None
    /\ MODEL_METADATA = None
    /\ MODEL_LOADED = FALSE
    /\ srvPc = "locate"
    /\ probe = 1
    /\ model_path = 0
    /\ resp = NoResp
    /\ running = Idle
    /\ run = 0
    /\ task = [t \in {Stages[i] : i \in 1..Len(Stages)} |-> "none"]
    /\ try_number = 0
    /\ savePc = "idle"
    /\ xcom = {}
    /\ dataset = NoData
    /\ loadPc = "idle"
    /\ data_files = {}
    /\ data_path = 0
    /\ trainPc = "idle"
    /\ split = NoSplit
    /\ scriptPc = "idle"
    /\ bootCrashRun = 0
    /\ bootSavedRun = 0

(***************************************************************************)
(* api/main.py: the startup hook load_model.  The hook runs in the server  *)
(* process; every access to the file system is a step of its own, because  *)
(* the DAG and train.py run in other processes.                            *)
(***************************************************************************)
\* os.path.exists(path)
exists(f) == f.st # "absent"

\* the directory of the chosen candidate
model_path_dir == possible_paths[model_path]

\* the slot as a save leaves it when it fails between lines 187 and 196 and
\* is not retried: this run's model.pkl whole, metrics.json not touched
SaveCrashedBeforeMetrics ==
    /\ run >= 1
    /\ task["save_model"] = "failed"
    /\ fs[model_dir].pkl = Whole(Dag(run))
    /\ fs[model_dir].json.v # Dag(run)

\* the save stage of the current run has returned with success (line 209)
SaveReturned == run >= 1 /\ task["save_model"] = "success"

\* load_model_locate with the flag raised on the "model not found" return
load_model_locate_flag_raised ==
    /\ srvPc = "locate"
    /\ IF exists(fs[possible_paths[probe]].pkl)
       THEN /\ model_path' = probe
            /\ srvPc' = "load"
            /\ UNCHANGED <<probe, MODEL_LOADED>>
       ELSE IF probe < Len(possible_paths)
       THEN /\ probe' = probe + 1
            /\ UNCHANGED <<model_path, srvPc, MODEL_LOADED>>
       ELSE /\ MODEL_LOADED' = TRUE
            /\ srvPc' = "done"
            /\ UNCHANGED <<probe, model_path>>
    /\ bootCrashRun' = IF probe = 1
                       THEN (IF SaveCrashedBeforeMetrics THEN run ELSE 0)
                       ELSE bootCrashRun
    /\ bootSavedRun' = IF probe = 1
                       THEN (IF SaveReturned THEN run ELSE 0)
                       ELSE bootSavedRun
    /\ UNCHANGED <<fs, MODEL, MODEL_METADATA, resp, running, dagVars, scriptPc>>

\* lines 99-108: one existence probe of the candidate loop; the last failed
\* probe takes the "model not found" return
load_model_locate ==
    /\ srvPc = "locate"
    /\ IF exists(fs[possible_paths[probe]].pkl)
       THEN /\ model_path' = probe
            /\ srvPc' = "load"
            /\ UNCHANGED <<probe, MODEL_LOADED>>
       ELSE IF probe < Len(possible_paths)
       THEN /\ probe' = probe + 1
            /\ UNCHANGED <<model_path, srvPc, MODEL_LOADED>>
       ELSE /\ MODEL_LOADED' = FALSE
            /\ srvPc' = "done"
            /\ UNCHANGED <<probe, model_path>>
    /\ bootCrashRun' = IF probe = 1
                       THEN (IF SaveCrashedBeforeMetrics THEN run ELSE 0)
                       ELSE bootCrashRun
    /\ bootSavedRun' = IF probe = 1
                       THEN (IF SaveReturned THEN run ELSE 0)
                       ELSE bootSavedRun
    /\ UNCHANGED <<fs, MODEL, MODEL_METADATA, resp, running, dagVars, scriptPc>>

\* load_model_joblib_load with the flag raised before the load and an except
\* clause that only logs
load_model_joblib_load_flag_first ==
    /\ srvPc = "load"
    /\ LET f == fs[model_path_dir].pkl IN
       IF f.st = "whole"
       THEN /\ MODEL' = f.v
            /\ srvPc' = "meta"
            /\ UNCHANGED MODEL_LOADED
       ELSE /\ MODEL_LOADED' = TRUE
            /\ srvPc' = "done"
            /\ UNCHANGED MODEL
    /\ UNCHANGED <<fs, MODEL_METADATA, probe, model_path, resp, running, bootCrashRun, bootSavedRun, dagVars, scriptPc>>

\* lines 110-113 and 129-131: joblib.load of the chosen file; a file that is
\* not whole does not deserialize and the except clause runs
load_model_joblib_load ==
    /\ srvPc = "load"
    /\ LET f == fs[model_path_dir].pkl IN
       IF f.st = "whole"
       THEN /\ MODEL' = f.v
            /\ srvPc' = "meta"
            /\ UNCHANGED MODEL_LOADED
       ELSE /\ MODEL_LOADED' = FALSE
            /\ srvPc' = "done"
            /\ UNCHANGED MODEL
    /\ UNCHANGED <<fs, MODEL_METADATA, probe, model_path, resp, running, bootCrashRun, bootSavedRun, dagVars, scriptPc>>

\* lines 115-117 and 126: existence probe of the sidecar next to the model
load_model_exists_metadata ==
    /\ srvPc = "meta"
    /\ IF exists(fs[model_path_dir].json)
       THEN /\ srvPc' = "readmeta"
            /\ UNCHANGED MODEL_LOADED
       ELSE /\ MODEL_LOADED' = TRUE
            /\ srvPc' = "done"
    /\ UNCHANGED <<fs, MODEL, MODEL_METADATA, probe, model_path, resp, running, bootCrashRun, bootSavedRun, dagVars,
                   scriptPc>>

\* load_model_json_load with a sidecar that cannot be read treated as absent
load_model_json_load_tolerant ==
    /\ srvPc = "readmeta"
    /\ LET f == fs[model_path_dir].json IN
       IF f.st = "whole"
       THEN /\ MODEL_METADATA' = f.v
            /\ MODEL_LOADED' = TRUE
       ELSE /\ MODEL_LOADED' = TRUE
            /\ UNCHANGED MODEL_METADATA
    /\ srvPc' = "done"
    /\ UNCHANGED <<fs, MODEL, probe, model_path, resp, running, bootCrashRun, bootSavedRun, dagVars, scriptPc>>

\* load_model_json_load reading /opt/airflow/models/metrics.json whatever
\* candidate was chosen
load_model_json_load_fixed_dir ==
    /\ srvPc = "readmeta"
    /\ LET f == fs[model_dir].json IN
       IF f.st = "whole"
       THEN /\ MODEL_METADATA' = f.v
            /\ MODEL_LOADED' = TRUE
       ELSE /\ MODEL_LOADED' = FALSE
            /\ UNCHANGED MODEL_METADATA
    /\ srvPc' = "done"
    /\ UNCHANGED <<fs, MODEL, probe, model_path, resp, running, bootCrashRun, bootSavedRun,
                   dagVars, scriptPc>>

\* lines 118-126 and 129-131: json.load of the sidecar
load_model_json_load ==
    /\ srvPc = "readmeta"
    /\ LET f == fs[model_path_dir].json IN
       IF f.st = "whole"
       THEN /\ MODEL_METADATA' = f.v
            /\ MODEL_LOADED' = TRUE
       ELSE /\ MODEL_LOADED' = FALSE
            /\ UNCHANGED MODEL_METADATA
    /\ srvPc' = "done"
    /\ UNCHANGED <<fs, MODEL, probe, model_path, resp, running, bootCrashRun, bootSavedRun, dagVars, scriptPc>>

(***************************************************************************)
(* api/main.py: request handlers.  They are coroutines without an await,   *)
(* so a handler runs to its response before the event loop takes up the    *)
(* next request; the only long part is the call into the artifact, which   *)
(* predict and predict_batch make synchronously on the event loop.  The    *)
(* server accepts requests once the startup hook has returned.             *)
(***************************************************************************)
\* metadata.get(key, default) with a key the metrics never carry
metadata_get_missing_key(key) ==
    [key |-> key, from |-> "default", ver |-> None]

\* metadata.get(key, default) on "MODEL_METADATA or {}"
metadata_get(key) ==
    IF MODEL_METADATA = None
    THEN [key |-> key, from |-> "default", ver |-> None]
    ELSE [key |-> key, from |-> "metrics", ver |-> MODEL_METADATA]

\* MODEL.predict on one row: a fitted artifact labels a row by its features
artifact_predict(x) == IF x = 0 THEN "setosa" ELSE "virginica"

\* request bodies of /predict-batch
Batches == UNION { [1..n -> Features] : n \in 0..MaxBatch }

\* health_check deciding the status on "MODEL is not None" alone
health_check_model_only ==
    /\ srvPc = "done"
    /\ running = Idle
    /\ resp' = [op |-> "health", code |-> 200,
                status |-> IF MODEL # None THEN "healthy" ELSE "unhealthy",
                model_loaded |-> MODEL_LOADED,
                model_version |-> IF MODEL # None THEN "1.0.0" ELSE "None"]
    /\ UNCHANGED <<fs, MODEL, MODEL_METADATA, MODEL_LOADED, srvPc, probe, model_path,
                   running, bootCrashRun, bootSavedRun, dagVars, scriptPc>>

\* lines 134-159
health_check ==
    /\ srvPc = "done"
    /\ running = Idle
    /\ resp' = [op |-> "health", code |-> 200,
                status |-> IF MODEL_LOADED /\ MODEL # None THEN "healthy" ELSE "unhealthy",
                model_loaded |-> MODEL_LOADED,
                model_version |-> IF MODEL_LOADED /\ MODEL # None THEN "1.0.0" ELSE "None"]
    /\ UNCHANGED <<fs, MODEL, MODEL_METADATA, MODEL_LOADED, srvPc, probe, model_path,
                   running, bootCrashRun, bootSavedRun, dagVars, scriptPc>>

\* get_model_info lowering MODEL_LOADED when it answers 503
get_model_info_lowers_flag ==
    /\ srvPc = "done"
    /\ running = Idle
    /\ IF ~MODEL_LOADED \/ MODEL = None
       THEN /\ resp' = [op |-> "model_info", code |-> 503]
            /\ MODEL_LOADED' = FALSE
       ELSE /\ resp' = [op |-> "model_info", code |-> 200,
                        features |-> metadata_get("features_used"),
                        classes |-> metadata_get("classes"),
                        accuracy |-> metadata_get("train_accuracy")]
            /\ UNCHANGED MODEL_LOADED
    /\ UNCHANGED <<fs, MODEL, MODEL_METADATA, srvPc, probe, model_path,
                   running, bootCrashRun, bootSavedRun, dagVars, scriptPc>>

\* lines 162-187
get_model_info ==
    /\ srvPc = "done"
    /\ running = Idle
    /\ IF ~MODEL_LOADED \/ MODEL = None
       THEN resp' = [op |-> "model_info", code |-> 503]
       ELSE resp' = [op |-> "model_info", code |-> 200,
                     features |-> metadata_get("features_used"),
                     classes |-> metadata_get("classes"),
                     accuracy |-> metadata_get("train_accuracy")]
    /\ UNCHANGED <<fs, MODEL, MODEL_METADATA, MODEL_LOADED, srvPc, probe, model_path,
                   running, bootCrashRun, bootSavedRun, dagVars, scriptPc>>

\* lines 190-220: the request is taken up; the guard answers 503 at once,
\* otherwise the handler goes on to call the artifact
predict ==
    /\ srvPc = "done"
    /\ running = Idle
    /\ \E x \in Features :
         IF ~MODEL_LOADED \/ MODEL = None
         THEN /\ resp' = [op |-> "predict", code |-> 503, invoked |-> FALSE,
                          raised |-> FALSE, input_data |-> x]
              /\ UNCHANGED running
         ELSE /\ running' = [op |-> "predict", input_data |-> x]
              /\ resp' = NoResp
    /\ UNCHANGED <<fs, MODEL, MODEL_METADATA, MODEL_LOADED, srvPc, probe, model_path,
                   bootCrashRun, bootSavedRun, dagVars, scriptPc>>

\* predict_invoke with an except clause that marks the model as not loaded
predict_unloads ==
    /\ running.op = "predict"
    /\ \E raises \in BOOLEAN :
         IF raises
         THEN /\ resp' = [op |-> "predict", code |-> 400, invoked |-> TRUE,
                          raised |-> TRUE, input_data |-> running.input_data]
              /\ MODEL_LOADED' = FALSE
         ELSE /\ resp' = [op |-> "predict", code |-> 200, invoked |-> TRUE,
                          raised |-> FALSE, input_data |-> running.input_data,
                          prediction |-> artifact_predict(running.input_data),
                          input_features |-> running.input_data]
              /\ UNCHANGED MODEL_LOADED
    /\ running' = Idle
    /\ UNCHANGED <<fs, MODEL, MODEL_METADATA, srvPc, probe, model_path,
                   bootCrashRun, bootSavedRun, dagVars, scriptPc>>

\* lines 222-252: MODEL.predict and MODEL.predict_proba answer or raise; what
\* they raise is caught and re-raised as HTTPException(status_code=400)
predict_invoke ==
    /\ running.op = "predict"
    /\ \E raises \in BOOLEAN :
         IF raises
         THEN resp' = [op |-> "predict", code |-> 400, invoked |-> TRUE,
                       raised |-> TRUE, input_data |-> running.input_data]
         ELSE resp' = [op |-> "predict", code |-> 200, invoked |-> TRUE,
                       raised |-> FALSE, input_data |-> running.input_data,
                       prediction |-> artifact_predict(running.input_data),
                       input_features |-> running.input_data]
    /\ running' = Idle
    /\ UNCHANGED <<fs, MODEL, MODEL_METADATA, MODEL_LOADED, srvPc, probe, model_path,
                   bootCrashRun, bootSavedRun, dagVars, scriptPc>>

\* predict_batch guarded by "MODEL is None" alone
predict_batch_model_only ==
    /\ srvPc = "done"
    /\ running = Idle
    /\ \E predictions \in Batches :
         IF MODEL = None
         THEN /\ resp' = [op |-> "predict_batch", code |-> 503, invoked |-> FALSE,
                          raised |-> FALSE, batch_data |-> predictions]
              /\ UNCHANGED running
         ELSE /\ running' = [op |-> "predict_batch", batch_data |-> predictions]
              /\ resp' = NoResp
    /\ UNCHANGED <<fs, MODEL, MODEL_METADATA, MODEL_LOADED, srvPc, probe, model_path,
                   bootCrashRun, bootSavedRun, dagVars, scriptPc>>

\* lines 255-281: the request is taken up; the guard answers 503 at once,
\* otherwise the handler goes on to call the artifact
predict_batch ==
    /\ srvPc = "done"
    /\ running = Idle
    /\ \E predictions \in Batches :
         IF ~MODEL_LOADED \/ MODEL = None
         THEN /\ resp' = [op |-> "predict_batch", code |-> 503, invoked |-> FALSE,
                          raised |-> FALSE, batch_data |-> predictions]
              /\ UNCHANGED running
         ELSE /\ running' = [op |-> "predict_batch", batch_data |-> predictions]
              /\ resp' = NoResp
    /\ UNCHANGED <<fs, MODEL, MODEL_METADATA, MODEL_LOADED, srvPc, probe, model_path,
                   bootCrashRun, bootSavedRun, dagVars, scriptPc>>

\* lines 287-299: one result per row of the batch, numbered from 0
batch_results(rows) ==
    [i \in 1..Len(rows) |->
        [index |-> i - 1,
         prediction |-> artifact_predict(rows[i]),
         input_features |-> rows[i]]]

\* predict_batch_invoke building results only for rows with a non-zero feature
predict_batch_invoke_skips_zero ==
    /\ running.op = "predict_batch"
    /\ \E raises \in BOOLEAN :
         IF raises \/ Len(running.batch_data) = 0
         THEN resp' = [op |-> "predict_batch", code |-> 400, invoked |-> TRUE,
                       raised |-> TRUE, batch_data |-> running.batch_data]
         ELSE resp' = [op |-> "predict_batch", code |-> 200, invoked |-> TRUE,
                       raised |-> FALSE, batch_data |-> running.batch_data,
                       total_samples |-> Len(SelectSeq(running.batch_data, LAMBDA x : x # 0)),
                       predictions |-> batch_results(SelectSeq(running.batch_data, LAMBDA x : x # 0))]
    /\ running' = Idle
    /\ UNCHANGED <<fs, MODEL, MODEL_METADATA, MODEL_LOADED, srvPc, probe, model_path,
                   bootCrashRun, bootSavedRun, dagVars, scriptPc>>

\* predict_batch_invoke predicting row by row and skipping the row that raises
predict_batch_invoke_partial ==
    /\ running.op = "predict_batch"
    /\ \E raises \in BOOLEAN :
         IF Len(running.batch_data) = 0
         THEN resp' = [op |-> "predict_batch", code |-> 400, invoked |-> TRUE,
                       raised |-> TRUE, batch_data |-> running.batch_data]
         ELSE IF raises
         THEN resp' = [op |-> "predict_batch", code |-> 200, invoked |-> TRUE,
                       raised |-> TRUE, batch_data |-> running.batch_data,
                       total_samples |-> Len(running.batch_data) - 1,
                       predictions |-> batch_results(Tail(running.batch_data))]
         ELSE resp' = [op |-> "predict_batch", code |-> 200, invoked |-> TRUE,
                       raised |-> FALSE, batch_data |-> running.batch_data,
                       total_samples |-> Len(running.batch_data),
                       predictions |-> batch_results(running.batch_data)]
    /\ running' = Idle
    /\ UNCHANGED <<fs, MODEL, MODEL_METADATA, MODEL_LOADED, srvPc, probe, model_path,
                   bootCrashRun, bootSavedRun, dagVars, scriptPc>>

\* lines 274-314: MODEL.predict and MODEL.predict_proba are called once on the
\* whole matrix and answer or raise; np.array of an empty list is
\* one-dimensional, which the artifact rejects; what is raised is caught and
\* re-raised as HTTPException(status_code=400)
predict_batch_invoke ==
    /\ running.op = "predict_batch"
    /\ \E raises \in BOOLEAN :
         IF raises \/ Len(running.batch_data) = 0
         THEN resp' = [op |-> "predict_batch", code |-> 400, invoked |-> TRUE,
                       raised |-> TRUE, batch_data |-> running.batch_data]
         ELSE resp' = [op |-> "predict_batch", code |-> 200, invoked |-> TRUE,
                       raised |-> FALSE, batch_data |-> running.batch_data,
                       total_samples |-> Len(running.batch_data),
                       predictions |-> batch_results(running.batch_data)]
    /\ running' = Idle
    /\ UNCHANGED <<fs, MODEL, MODEL_METADATA, MODEL_LOADED, srvPc, probe, model_path,
                   bootCrashRun, bootSavedRun, dagVars, scriptPc>>

\* lines 317-332
root ==
    /\ srvPc = "done"
    /\ running = Idle
    /\ resp' = [op |-> "root", code |-> 200]
    /\ UNCHANGED <<fs, MODEL, MODEL_METADATA, MODEL_LOADED, srvPc, probe, model_path,
                   running, bootCrashRun, bootSavedRun, dagVars, scriptPc>>

(***************************************************************************)
(* dags/train_pipeline.py: the DAG load_data >> train_model >> save_model  *)
(* >> log_results under Airflow's default trigger rule (all upstream tasks *)
(* succeeded) and retries = 1.                                             *)
(***************************************************************************)
StageSet == {Stages[i] : i \in 1..Len(Stages)}
Terminal == {"success", "failed", "upstream_failed"}
RunFinished == \A t \in StageSet : task[t] \in Terminal

\* the task a task depends on (line 274); load_data has none
Upstream(t) == Stages[StageIdx(t) - 1]
\* UpstreamDone under trigger rule all_done
UpstreamDone_all_done(t) == IF StageIdx(t) = 1 THEN TRUE ELSE task[Upstream(t)] \in Terminal
\* UpstreamDone of a DAG that declares no dependencies between its tasks
UpstreamDone_no_dependencies(t) == StageIdx(t) >= 1
UpstreamDone(t) == IF StageIdx(t) = 1 THEN TRUE ELSE task[Upstream(t)] = "success"

\* XCom keys a task pushes: its named keys and its return value
KeysOf(t) ==
    IF t = "load_data" THEN {"dataset", "load_data"}
    ELSE IF t = "train_model" THEN {"metrics", "model", "train_model"}
    ELSE {t}

\* XCom keys a task pulls (lines 102, 179, 182, 225-227)
ReadsOf(t) ==
    IF t = "train_model" THEN {"dataset"}
    ELSE IF t = "save_model" THEN {"model", "metrics"}
    ELSE IF t = "log_results" THEN {"load_data", "train_model", "save_model"}
    ELSE {}

\* the task named by task_ids in the xcom_pull of a key
ProducerOf(k) == CHOOSE t \in StageSet : k \in KeysOf(t)

\* schedule_interval: the next DAG run starts after the previous one ended
dag_run ==
    /\ run < MaxRuns
    /\ run = 0 \/ RunFinished
    /\ run' = run + 1
    /\ task' = [t \in StageSet |-> "none"]
    /\ try_number' = 0
    /\ savePc' = "idle"
    /\ xcom' = {}
    /\ dataset' = NoData
    /\ split' = NoSplit
    /\ UNCHANGED <<fs, srvVars, loadVars, trainPc, scriptPc>>

\* lines 249-274: a task is started, first or after up_for_retry, once its
\* upstream task has succeeded; its XCom entries are cleared
task_start(t) ==
    /\ run >= 1
    /\ task[t] \in {"none", "up_for_retry"}
    /\ UpstreamDone(t)
    /\ task' = [task EXCEPT ![t] = "running"]
    /\ try_number' = IF task[t] = "none" THEN 1 ELSE try_number + 1
    /\ xcom' = xcom \ KeysOf(t)
    /\ savePc' = IF t = "save_model" THEN "start" ELSE savePc
    /\ loadPc' = IF t = "load_data" THEN "start" ELSE loadPc
    /\ trainPc' = IF t = "train_model" THEN "start" ELSE trainPc
    /\ UNCHANGED <<fs, srvVars, run, dataset, data_files, data_path, split, scriptPc>>

\* line 274: a task below a failed task is never run
task_upstream_failed(t) ==
    /\ run >= 1
    /\ task[t] = "none"
    /\ StageIdx(t) > 1
    /\ task[Upstream(t)] \in {"failed", "upstream_failed"}
    /\ task' = [task EXCEPT ![t] = "upstream_failed"]
    /\ UNCHANGED <<fs, srvVars, run, try_number, savePc, xcom, dataset, loadVars, trainVars, scriptPc>>

\* the except clauses (lines 89-91, 161-163, 211-213, 244-246) re-raise, and
\* a worker can die at any point, so a running task can fail wherever it is;
\* it is retried while try_number <= retries (line 35)
task_raise(t) ==
    /\ task[t] = "running"
    /\ task' = [task EXCEPT ![t] = IF try_number <= retries THEN "up_for_retry" ELSE "failed"]
    /\ try_number' = IF try_number <= retries THEN try_number ELSE 0
    /\ savePc' = IF t = "save_model" THEN "idle" ELSE savePc
    /\ loadPc' = IF t = "load_data" THEN "idle" ELSE loadPc
    /\ data_files' = IF t = "load_data" THEN {} ELSE data_files
    /\ data_path' = IF t = "load_data" THEN 0 ELSE data_path
    /\ trainPc' = IF t = "train_model" THEN "idle" ELSE trainPc
    /\ UNCHANGED <<fs, srvVars, run, xcom, dataset, split, scriptPc>>

\* possible_paths of load_data (lines 58-63)
data_possible_paths == <<"/opt/airflow/data/dataset.csv", "./data/dataset.csv",
                         "/data/dataset.csv", "../data/dataset.csv">>

\* the candidate loop without its break: the last existing candidate wins
RECURSIVE first_existing_no_break(_, _)
first_existing_no_break(found, i) ==
    IF i > Len(data_possible_paths) THEN 0
    ELSE IF first_existing_no_break(found, i + 1) # 0
    THEN first_existing_no_break(found, i + 1)
    ELSE IF i \in found THEN i ELSE 0

\* lines 65-69: the candidate loop from index i on; found holds the indexes
\* for which os.path.exists answers True; 0 when the loop ends without a hit
RECURSIVE first_existing(_, _)
first_existing(found, i) ==
    IF i > Len(data_possible_paths) THEN 0
    ELSE IF i \in found THEN i
    ELSE first_existing(found, i + 1)

\* lines 57-75: the candidates are probed in order; with no hit the task is
\* left with FileNotFoundError to raise (lines 71-73), which task_raise does
load_data_locate ==
    /\ task["load_data"] = "running"
    /\ loadPc = "start"
    /\ \E found \in SUBSET (1..Len(data_possible_paths)) :
         /\ data_files' = found
         /\ data_path' = first_existing(found, 1)
         /\ loadPc' = IF first_existing(found, 1) = 0 THEN "notfound" ELSE "found"
    /\ UNCHANGED <<fs, srvVars, run, task, try_number, savePc, xcom, dataset, trainVars,
                   scriptPc>>

\* lines 77-87: the CSV that was found is read and pushed without validation
load_data ==
    /\ task["load_data"] = "running"
    /\ loadPc = "found"
    /\ \E df \in Datasets :
         /\ dataset' = df
         /\ xcom' = xcom \cup {"dataset", "load_data"}
    /\ task' = [task EXCEPT !["load_data"] = "success"]
    /\ try_number' = 0
    /\ loadPc' = "idle"
    /\ data_files' = {}
    /\ data_path' = 0
    /\ UNCHANGED <<fs, srvVars, run, savePc, trainVars, scriptPc>>

\* train_test_split(test_size=0.2, stratify=y), lines 115-117
n_classes == 3
test_samples(n) == (n + 4) \div 5
training_samples(n) == n - test_samples(n)
split_ok(n) == /\ n >= 2 * n_classes
               /\ test_samples(n) >= n_classes
               /\ training_samples(n) >= n_classes

\* random_state of train_test_split (line 116)
random_state == 42

\* train_test_split(X, y, test_size=0.2, random_state=seed, stratify=y) on n
\* rows: the sizes of the two parts, and the shuffle that decides which rows
\* go where, which the generator derives from the seed and the row count
train_test_split(n, seed) ==
    [rows |-> n,
     training_samples |-> training_samples(n),
     test_samples |-> test_samples(n),
     shuffle |-> <<seed, n>>]

\* train_model_split calling train_test_split without random_state, so that
\* the generator is seeded anew by every call
train_model_split_unseeded ==
    /\ task["train_model"] = "running"
    /\ trainPc = "start"
    /\ "dataset" \in xcom
    /\ split_ok(dataset.rows)
    /\ \E seed \in {random_state, random_state + try_number} :
         split' = train_test_split(dataset.rows, seed)
    /\ trainPc' = "split"
    /\ UNCHANGED <<fs, srvVars, run, task, try_number, savePc, xcom, dataset, loadVars,
                   scriptPc>>

\* lines 100-120: the dataset is pulled from XCom and split; a dataset the
\* split rejects leaves the task with the ValueError to raise
train_model_split ==
    /\ task["train_model"] = "running"
    /\ trainPc = "start"
    /\ "dataset" \in xcom
    /\ split_ok(dataset.rows)
    /\ split' = train_test_split(dataset.rows, random_state)
    /\ trainPc' = "split"
    /\ UNCHANGED <<fs, srvVars, run, task, try_number, savePc, xcom, dataset, loadVars,
                   scriptPc>>

\* lines 122-159: the model is fitted and evaluated, and the run's metrics
\* and model are pushed to XCom
train_model ==
    /\ task["train_model"] = "running"
    /\ trainPc = "split"
    /\ xcom' = xcom \cup {"metrics", "model", "train_model"}
    /\ task' = [task EXCEPT !["train_model"] = "success"]
    /\ try_number' = 0
    /\ trainPc' = "idle"
    /\ UNCHANGED <<fs, srvVars, run, savePc, dataset, loadVars, split, scriptPc>>

\* lines 172-183: makedirs and the two xcom_pull / loads calls
save_model_pull ==
    /\ task["save_model"] = "running"
    /\ savePc = "start"
    /\ {"model", "metrics"} \subseteq xcom
    /\ savePc' = "pulled"
    /\ UNCHANGED <<fs, srvVars, run, task, try_number, xcom, dataset, loadVars, trainVars, scriptPc>>

\* line 187: joblib.dump opens model.pkl for writing, which truncates it
save_model_dump_open ==
    /\ task["save_model"] = "running"
    /\ savePc = "pulled"
    /\ fs' = [fs EXCEPT ![model_dir].pkl = Partial(Dag(run))]
    /\ savePc' = "dumping"
    /\ UNCHANGED <<srvVars, run, task, try_number, xcom, dataset, loadVars, trainVars, scriptPc>>

\* lines 187-192: joblib.dump returns, the file is whole
save_model_dump_close ==
    /\ task["save_model"] = "running"
    /\ savePc = "dumping"
    /\ fs' = [fs EXCEPT ![model_dir].pkl = Whole(Dag(run))]
    /\ savePc' = "dumped"
    /\ UNCHANGED <<srvVars, run, task, try_number, xcom, dataset, loadVars, trainVars, scriptPc>>

\* save_model_metrics_open with the metrics written before the model is dumped
save_model_metrics_open_first ==
    /\ task["save_model"] = "running"
    /\ savePc = "pulled"
    /\ fs' = [fs EXCEPT ![model_dir].json = Partial(Dag(run))]
    /\ savePc' = "metricsOpen"
    /\ UNCHANGED <<srvVars, run, task, try_number, xcom, dataset, loadVars, trainVars, scriptPc>>

\* lines 195-196: open(metrics_path, 'w') truncates metrics.json
save_model_metrics_open ==
    /\ task["save_model"] = "running"
    /\ savePc = "dumped"
    /\ fs' = [fs EXCEPT ![model_dir].json = Partial(Dag(run))]
    /\ savePc' = "metricsOpen"
    /\ UNCHANGED <<srvVars, run, task, try_number, xcom, dataset, loadVars, trainVars, scriptPc>>

\* lines 197-198: json.dump and the end of the with block
save_model_metrics_close ==
    /\ task["save_model"] = "running"
    /\ savePc = "metricsOpen"
    /\ fs' = [fs EXCEPT ![model_dir].json = Whole(Dag(run))]
    /\ savePc' = "metricsWritten"
    /\ UNCHANGED <<srvVars, run, task, try_number, xcom, dataset, loadVars, trainVars, scriptPc>>

\* save_model returning right after joblib.dump, without writing the metrics
save_model_return_without_metrics ==
    /\ task["save_model"] = "running"
    /\ savePc = "dumped"
    /\ savePc' = "idle"
    /\ xcom' = xcom \cup {"save_model"}
    /\ task' = [task EXCEPT !["save_model"] = "success"]
    /\ try_number' = 0
    /\ UNCHANGED <<fs, srvVars, run, dataset, loadVars, trainVars, scriptPc>>

\* lines 200-209: the summary is logged and the task returns
save_model_return ==
    /\ task["save_model"] = "running"
    /\ savePc = "metricsWritten"
    /\ savePc' = "idle"
    /\ xcom' = xcom \cup {"save_model"}
    /\ task' = [task EXCEPT !["save_model"] = "success"]
    /\ try_number' = 0
    /\ UNCHANGED <<fs, srvVars, run, dataset, loadVars, trainVars, scriptPc>>

\* lines 215-242: the three return values are read and the record returned
log_results ==
    /\ task["log_results"] = "running"
    /\ {"load_data", "train_model", "save_model"} \subseteq xcom
    /\ xcom' = xcom \cup {"log_results"}
    /\ task' = [task EXCEPT !["log_results"] = "success"]
    /\ try_number' = 0
    /\ UNCHANGED <<fs, srvVars, run, savePc, dataset, loadVars, trainVars, scriptPc>>

(***************************************************************************)
(* src/train.py: the stand-alone training script, which writes the pair    *)
(* into ./models of its working directory.                                 *)
(***************************************************************************)
\* line 72: joblib.dump opens models/model.pkl
script_dump_open ==
    /\ scriptPc = "idle"
    /\ fs' = [fs EXCEPT !["rel"].pkl = Partial(ScriptVer)]
    /\ scriptPc' = "dumping"
    /\ UNCHANGED <<srvVars, dagVars>>

\* lines 72-73
script_dump_close ==
    /\ scriptPc = "dumping"
    /\ fs' = [fs EXCEPT !["rel"].pkl = Whole(ScriptVer)]
    /\ scriptPc' = "dumped"
    /\ UNCHANGED <<srvVars, dagVars>>

\* lines 85-86: open(metrics_path, 'w')
script_metrics_open ==
    /\ scriptPc = "dumped"
    /\ fs' = [fs EXCEPT !["rel"].json = Partial(ScriptVer)]
    /\ scriptPc' = "metricsOpen"
    /\ UNCHANGED <<srvVars, dagVars>>

\* lines 87-90
script_metrics_close ==
    /\ scriptPc = "metricsOpen"
    /\ fs' = [fs EXCEPT !["rel"].json = Whole(ScriptVer)]
    /\ scriptPc' = "done"
    /\ UNCHANGED <<srvVars, dagVars>>

\* the server process: startup hook, then requests
NextServer ==
    \/ load_model_locate
    \/ load_model_joblib_load
    \/ load_model_exists_metadata
    \/ load_model_json_load
    \/ health_check
    \/ get_model_info
    \/ predict
    \/ predict_invoke
    \/ predict_batch
    \/ predict_batch_invoke
    \/ root

\* the Airflow scheduler and its workers
NextDag ==
    \/ dag_run
    \/ \E t \in StageSet : task_start(t)
    \/ \E t \in StageSet : task_upstream_failed(t)
    \/ \E t \in StageSet : task_raise(t)
    \/ load_data_locate
    \/ load_data
    \/ train_model_split
    \/ train_model
    \/ save_model_pull
    \/ save_model_dump_open
    \/ save_model_dump_close
    \/ save_model_metrics_open
    \/ save_model_metrics_close
    \/ save_model_return
    \/ log_results

\* the stand-alone script
NextScript ==
    \/ script_dump_open
    \/ script_dump_close
    \/ script_metrics_open
    \/ script_metrics_close

\* the deployment: the server next to the DAG that fills its slot
Next == NextServer \/ NextDag

Spec == Init /\ [][Next]_vars

\* the two writers of an artifact pair, the save stage and train.py
NextSave == NextDag \/ NextScript

SaveSpec == Init /\ [][NextSave]_vars

\* the DAG on its own, with a scheduler and workers that keep going: a step
\* of the DAG that stays possible is eventually taken
DagFairSpec == Init /\ [][NextDag]_vars /\ WF_vars(NextDag)

\* the startup hook is straight-line code in one coroutine: once the server
\* process runs, each of its steps is eventually taken
FairSpec ==
    /\ Spec
    /\ WF_vars(load_model_locate)
    /\ WF_vars(load_model_joblib_load)
    /\ WF_vars(load_model_exists_metadata)
    /\ WF_vars(load_model_json_load)

(***************************************************************************)
(* Properties                                                              *)
(***************************************************************************)
\* ServerState of the specification in terms of the globals: Unloaded until
\* the startup hook has returned, then Loaded when the handlers' guard
\* "MODEL_LOADED and MODEL is not None" passes, LoadFailed otherwise
ServerState ==
    IF srvPc # "done" THEN "Unloaded"
    ELSE IF MODEL_LOADED /\ MODEL # None THEN "Loaded"
    ELSE "LoadFailed"

\* the complete (artifact, metrics) pair of DAG run r in the slot
CompletePair(r) == [pkl |-> Whole(Dag(r)), json |-> Whole(Dag(r))]

\* the server located its artifact in the directory the save stage writes
LocatedSlot == model_path # 0 /\ possible_paths[model_path] = model_dir

\* C1: ServerState starts as Unloaded; a step out of Unloaded goes to Loaded
\* or LoadFailed; once the state is not Unloaded no step (health, model_info,
\* predict, predict_batch, root, or any step of the DAG or of train.py)
\* changes the state or the three globals again; and startup does leave
\* Unloaded
C1_StateSetOnce ==
    /\ ServerState = "Unloaded"
    /\ [][ /\ ServerState' \in {"Unloaded", "Loaded", "LoadFailed"}
           /\ ServerState # "Unloaded" =>
                 /\ ServerState' = ServerState
                 /\ UNCHANGED <<MODEL, MODEL_METADATA, MODEL_LOADED>> ]_vars
    /\ <>(ServerState # "Unloaded")

C1_Witness ==
    /\ ServerState = "Loaded"
    /\ resp.op = "predict_batch"
    /\ resp.code = 400

\* C2: a predict or predict_batch response given while the state is not
\* Loaded is the 503 rejection, and the artifact was not invoked for it
C2_RejectedWhenNotLoaded ==
    (resp.op \in {"predict", "predict_batch"} /\ ServerState # "Loaded") =>
        (resp.code = 503 /\ ~resp.invoked)

C2_Witness ==
    /\ resp.op = "predict_batch"
    /\ resp.code = 503
    /\ MODEL # None
    /\ ~MODEL_LOADED

\* C3: every health response is a normal response (200) whose status is
\* healthy exactly when the state is Loaded and unhealthy exactly when the
\* state is Unloaded or LoadFailed
C3_HealthReportsState ==
    resp.op = "health" =>
        /\ resp.code = 200
        /\ resp.status = "healthy" <=> ServerState = "Loaded"
        /\ resp.status = "unhealthy" <=> ServerState \in {"Unloaded", "LoadFailed"}

C3_Witness ==
    /\ resp.op = "health"
    /\ resp.status = "unhealthy"
    /\ MODEL_LOADED
    /\ MODEL = None

\* C4: a server that located its artifact in the slot the save stage writes
\* ends startup holding a complete pair of one run, whatever the interleaving
\* with the save stage: never an artifact with the metrics of another run or
\* with none, and never a failed load of a half-written file
C4_ReaderSeesCompletePair ==
    (srvPc = "done" /\ LocatedSlot) =>
        /\ MODEL_LOADED
        /\ MODEL # None
        /\ MODEL_METADATA = MODEL

\* C5: while a save (the save stage, or train.py) is writing or has written
\* its metrics sidecar, the artifact file it wrote before is whole
C5_MetricsAfterArtifact ==
    /\ savePc \in {"metricsOpen", "metricsWritten"} => fs[model_dir].pkl = Whole(Dag(run))
    /\ scriptPc \in {"metricsOpen", "done"} => fs["rel"].pkl = Whole(ScriptVer)

C5_Witness ==
    /\ savePc = "metricsOpen"
    /\ try_number = 2
    /\ fs[model_dir].json = Partial(Dag(run))
    /\ scriptPc = "metricsOpen"

\* C6: a server that boots after the save stage wrote the artifact and failed
\* before the metrics sidecar, and loads from that slot, is Loaded with this
\* run's artifact and no metadata, and model_info answers with the defaults
C6_CrashedSaveLoadsWithoutMetrics ==
    (/\ srvPc = "done"
     /\ bootCrashRun # 0
     /\ bootCrashRun = run
     /\ task["save_model"] = "failed"
     /\ LocatedSlot) =>
        /\ MODEL_LOADED
        /\ MODEL = Dag(run)
        /\ MODEL_METADATA = None
        /\ resp.op = "model_info" =>
              /\ resp.code = 200
              /\ resp.features.from = "default"
              /\ resp.classes.from = "default"

\* C7: when the startup probes found no artifact at any candidate location,
\* startup has returned with MODEL_LOADED false and MODEL None, the server
\* is not Loaded, health answers 200 / unhealthy / model_loaded false, and
\* predict answers 503
C7_NoArtifact ==
    (srvPc = "done" /\ model_path = 0) =>
        /\ ~MODEL_LOADED
        /\ MODEL = None
        /\ ServerState = "LoadFailed"
        /\ resp.op = "health" =>
              (resp.code = 200 /\ resp.status = "unhealthy" /\ ~resp.model_loaded)
        /\ resp.op = "predict" => (resp.code = 503 /\ ~resp.invoked)

C7_Witness ==
    /\ srvPc = "done"
    /\ model_path = 0
    /\ resp.op = "predict"

\* the state startup leaves when joblib.load raised: a candidate was chosen,
\* MODEL was never assigned and the flag is false
DeserializeFailed ==
    srvPc = "done" /\ model_path # 0 /\ MODEL = None /\ ~MODEL_LOADED

\* C8: when the chosen artifact file does not deserialize, the startup step
\* that reads it ends startup with MODEL_LOADED false (state LoadFailed), and
\* from then on the state stays so and every predict and predict_batch
\* response is the 503 rejection
C8_LoadFailure ==
    /\ [][ (srvPc = "load" /\ srvPc' # "load" /\ fs[model_path_dir].pkl.st # "whole") =>
              (srvPc' = "done" /\ ~MODEL_LOADED' /\ MODEL' = None) ]_vars
    /\ [][ DeserializeFailed => DeserializeFailed' ]_vars
    /\ [](DeserializeFailed =>
            /\ ServerState = "LoadFailed"
            /\ resp.op \in {"predict", "predict_batch"} =>
                  (resp.code = 503 /\ ~resp.invoked))

C8_Witness ==
    /\ DeserializeFailed
    /\ resp.op = "predict_batch"
    /\ fs[model_path_dir].pkl.st = "whole"

\* C9: a stage that has started (is running, awaits a retry, succeeded or
\* failed) has its upstream stage succeeded; a stage goes to running only
\* when its upstream stage has succeeded; and a failed stage stays failed
\* for the rest of its run, so no later stage of that run starts
C9_StrictOrder ==
    /\ [](\A t \in StageSet :
            (StageIdx(t) > 1 /\ task[t] \notin {"none", "upstream_failed"}) =>
                task[Upstream(t)] = "success")
    /\ [][ \A t \in StageSet :
              /\ (task[t] # "running" /\ task'[t] = "running" /\ StageIdx(t) > 1) =>
                    (task[Upstream(t)] = "success" /\ task'[Upstream(t)] = "success")
              /\ (task[t] = "failed" /\ run' = run) => task'[t] = "failed" ]_vars

C9_Witness ==
    /\ task["train_model"] = "failed"
    /\ task["save_model"] = "upstream_failed"
    /\ task["log_results"] = "upstream_failed"
    /\ run = 1
    /\ fs[model_dir] = CompletePair(0)

\* C10: when a stage of the run has failed, the slot is empty or holds the
\* complete pair of one run
C10_NoPartialArtifact ==
    (\E t \in StageSet : task[t] = "failed") =>
        \/ fs[model_dir] = EmptyDir
        \/ \E r \in 0..MaxRuns : fs[model_dir] = CompletePair(r)

\* C11: both candidate searches return the first candidate that exists and
\* none exactly when no candidate exists.  The server probes one candidate
\* per file-system access: it moves past a candidate only when that candidate
\* is absent, chooses the candidate it is probing only when that one exists,
\* and gives up only past the last candidate; load_data's search ends on the
\* smallest index among the existing candidates, and on None exactly when no
\* candidate exists
C11_LocateFirstExisting ==
    /\ [][ /\ (probe' # probe) =>
                  /\ probe' = probe + 1
                  /\ ~exists(fs[possible_paths[probe]].pkl)
                  /\ model_path' = 0
           /\ (model_path' # model_path) =>
                  /\ model_path = 0
                  /\ model_path' = probe
                  /\ exists(fs[possible_paths[probe]].pkl)
           /\ (srvPc = "locate" /\ srvPc' = "done") =>
                  /\ probe = Len(possible_paths)
                  /\ ~exists(fs[possible_paths[probe]].pkl)
                  /\ model_path' = 0
           /\ (srvPc = "locate" /\ srvPc' = "load") => model_path' # 0 ]_vars
    /\ [](loadPc = "found" =>
            /\ data_path \in data_files
            /\ \A j \in data_files : data_path <= j)
    /\ [](loadPc = "notfound" => (data_files = {} /\ data_path = 0))
    /\ [](loadPc \in {"idle", "start"} => (data_files = {} /\ data_path = 0))

C11_Witness ==
    /\ loadPc = "found"
    /\ data_files = {2, 4}
    /\ data_path = 2
    /\ model_path = 3
    /\ ~exists(fs["rel"].pkl)
    /\ exists(fs["app"].pkl)

\* C12: a step of a request handler (health_check, get_model_info, predict,
\* predict_batch, root: the steps that take up a request or answer one) leaves
\* MODEL, MODEL_METADATA and MODEL_LOADED as they were, whether the call
\* succeeds, is rejected with 503 or fails with 400
C12_HandlersLeaveGlobals ==
    [][ (resp' # resp \/ running' # running) =>
            /\ MODEL' = MODEL
            /\ MODEL_METADATA' = MODEL_METADATA
            /\ MODEL_LOADED' = MODEL_LOADED ]_vars

C12_Witness ==
    /\ resp.op = "predict"
    /\ resp.code = 400
    /\ resp.raised
    /\ MODEL = PrevVer
    /\ MODEL_METADATA = PrevVer
    /\ MODEL_LOADED

\* C13: a model_info answer given while Loaded takes features, classes and
\* accuracy from the metrics that were loaded, all three from the same
\* metrics; it falls back to the compiled-in defaults only when no metrics
\* were loaded, and the server is Loaded without metrics only when the probe
\* of the sidecar at load time found it absent; metrics that were loaded
\* are the content the sidecar had when it was read
C13_ModelInfoFromMetrics ==
    /\ [](resp.op = "model_info" /\ resp.code = 200 =>
            /\ ServerState = "Loaded"
            /\ \A f \in {resp.features, resp.classes, resp.accuracy} :
                  IF MODEL_METADATA # None
                  THEN f.from = "metrics" /\ f.ver = MODEL_METADATA
                  ELSE f.from = "default")
    /\ [][ /\ (srvPc # "done" /\ srvPc' = "done" /\ MODEL_LOADED' /\ MODEL_METADATA' = None) =>
                  (srvPc = "meta" /\ ~exists(fs[model_path_dir].json))
           /\ (MODEL_METADATA' # MODEL_METADATA) =>
                  /\ srvPc = "readmeta"
                  /\ MODEL_LOADED'
                  /\ fs[model_path_dir].json = Whole(MODEL_METADATA') ]_vars

C13_Witness ==
    /\ resp.op = "model_info"
    /\ resp.code = 200
    /\ resp.features = [key |-> "features_used", from |-> "metrics", ver |-> Dag(1)]
    /\ resp.accuracy = [key |-> "train_accuracy", from |-> "metrics", ver |-> Dag(1)]
    /\ MODEL_METADATA = Dag(1)

\* C14: a predict_batch call made while Loaded for which the artifact answers
\* is answered with 200 and one result per input row, in input order: as many
\* results as rows, total_samples equal to that number, and the result at
\* position i (counted from 0) carries index i, echoes the features of input
\* row i and holds the artifact's label for that row; all-zero rows included
C14_BatchOneResultPerInput ==
    (resp.op = "predict_batch" /\ ServerState = "Loaded" /\ ~resp.raised) =>
        /\ resp.code = 200
        /\ Len(resp.predictions) = Len(resp.batch_data)
        /\ resp.total_samples = Len(resp.batch_data)
        /\ \A i \in 1..Len(resp.batch_data) :
              /\ resp.predictions[i].index = i - 1
              /\ resp.predictions[i].input_features = resp.batch_data[i]
              /\ resp.predictions[i].prediction = artifact_predict(resp.batch_data[i])

C14_Witness ==
    /\ resp.op = "predict_batch"
    /\ resp.code = 200
    /\ ServerState = "Loaded"
    /\ resp.batch_data = <<0, 1>>
    /\ Len(resp.predictions) = 2
    /\ resp.predictions[1] = [index |-> 0, prediction |-> "setosa", input_features |-> 0]
    /\ resp.predictions[2].index = 1

\* C15: when the artifact raises for a batch, the whole predict_batch call is
\* answered with an error (400) that carries no results; an answer that does
\* carry results carries one for every input row and belongs to a call in
\* which nothing was raised, so no answer holds results for only some rows
C15_BatchAllOrNothing ==
    resp.op = "predict_batch" =>
        /\ resp.raised =>
              /\ resp.code = 400
              /\ "predictions" \notin DOMAIN resp
              /\ "total_samples" \notin DOMAIN resp
        /\ "predictions" \in DOMAIN resp =>
              /\ ~resp.raised
              /\ Len(resp.predictions) = Len(resp.batch_data)

C15_Witness ==
    /\ resp.op = "predict_batch"
    /\ ServerState = "Loaded"
    /\ resp.raised
    /\ resp.code = 400
    /\ Len(resp.batch_data) = 2
    /\ "predictions" \notin DOMAIN resp

\* C16: a predict_batch call with an empty input list made while Loaded is
\* answered with 200 and an empty result list
C16_EmptyBatchEmptyResult ==
    (resp.op = "predict_batch" /\ ServerState = "Loaded" /\ Len(resp.batch_data) = 0) =>
        /\ resp.code = 200
        /\ resp.predictions = << >>
        /\ resp.total_samples = 0

\* C17: when the artifact raises inside predict or predict_batch, the request
\* is answered with the generic internal-error response (500)
C17_UnexpectedIsInternalError ==
    (resp.op \in {"predict", "predict_batch"} /\ resp.raised) => resp.code = 500

\* C18: while a predict or predict_batch call is between its start and its
\* completion, a health request can be answered
C18_HealthNotBlocked ==
    running.op \in {"predict", "predict_batch"} => ENABLED health_check

\* C19: a stage that is running, and so may pull from XCom, finds every key
\* it pulls already pushed in this run by a producing stage that has
\* completed with success; and the steps that do the pulling (train_model
\* for 'dataset', save_model for 'model' and 'metrics', log_results for the
\* three return values) are taken only then
C19_ReadAfterProducerCompleted ==
    /\ [](\A t \in StageSet : task[t] = "running" =>
            \A k \in ReadsOf(t) : k \in xcom /\ task[ProducerOf(k)] = "success")
    /\ [][ /\ (savePc = "start" /\ savePc' = "pulled") =>
                  \A k \in ReadsOf("save_model") :
                      k \in xcom /\ task[ProducerOf(k)] = "success"
           /\ (trainPc = "start" /\ trainPc' = "split") =>
                  \A k \in ReadsOf("train_model") :
                      k \in xcom /\ task[ProducerOf(k)] = "success"
           /\ \A t \in {"train_model", "log_results"} :
                  (task[t] = "running" /\ task'[t] = "success") =>
                      \A k \in ReadsOf(t) :
                          k \in xcom /\ task[ProducerOf(k)] = "success" ]_vars

C19_Witness ==
    /\ task["log_results"] = "success"
    /\ "log_results" \in xcom
    /\ {"dataset", "model", "metrics", "load_data", "train_model", "save_model"} \subseteq xcom
    /\ task["load_data"] = "success"
    /\ task["train_model"] = "success"
    /\ task["save_model"] = "success"

\* C20: a dataset published under 'dataset', and so handed to train_model,
\* has at least one row and no null cell
C20_LoadValidates ==
    "dataset" \in xcom => (dataset.rows > 0 /\ ~dataset.nulls)

C22_HealthFieldsAgree ==
    resp.op = "health" => (resp.status = "healthy" <=> resp.model_loaded)

\* C23: when startup has loaded the artifact and then reads a sidecar that
\* is not whole, it ends with MODEL_LOADED false and MODEL still holding the
\* artifact; in the state this leaves (MODEL non-null, MODEL_LOADED false)
\* predict, predict_batch and model_info are answered with 503 and no
\* prediction is taken up; and MODEL_LOADED is raised only by the step that
\* found the sidecar absent or by the step that read it whole, both of which
\* come after the artifact was loaded
C23_UnreadableSidecar ==
    /\ [][ /\ (srvPc = "readmeta" /\ srvPc' # srvPc
                    /\ fs[model_path_dir].json.st # "whole") =>
                  /\ srvPc' = "done"
                  /\ ~MODEL_LOADED'
                  /\ MODEL' = MODEL
                  /\ MODEL_METADATA' = None
           /\ (~MODEL_LOADED /\ MODEL_LOADED') =>
                  /\ MODEL' = MODEL
                  /\ \/ srvPc = "meta" /\ ~exists(fs[model_path_dir].json)
                     \/ /\ srvPc = "readmeta"
                        /\ fs[model_path_dir].json.st = "whole"
                        /\ MODEL_METADATA' = fs[model_path_dir].json.v ]_vars
    /\ []((srvPc = "done" /\ MODEL # None /\ ~MODEL_LOADED) =>
            /\ running = Idle
            /\ resp.op \in {"predict", "predict_batch", "model_info"} => resp.code = 503)
    /\ [](srvPc \in {"meta", "readmeta"} => model_path # 0)

C23_Witness ==
    /\ srvPc = "done"
    /\ MODEL = Dag(1)
    /\ ~MODEL_LOADED
    /\ MODEL_METADATA = None
    /\ resp.op = "model_info"
    /\ resp.code = 503
    /\ fs[model_dir].json.st = "partial"

RunEnded ==
    \/ task["log_results"] = "success"
    \/ \E t \in StageSet : task[t] = "failed"

\* C25: log_results has returned its completion record in a run only if
\* load_data, train_model and save_model have each returned with success in
\* that run, their return values are in the run's XCom, and the slot holds
\* the model.pkl and the metrics.json that this run's save_model wrote; and
\* every run that starts reaches, before any next run, the completion record
\* or a failed stage
C25_CompletionRecord ==
    /\ [](task["log_results"] = "success" =>
            /\ \A t \in StageSet : task[t] = "success"
            /\ {"load_data", "train_model", "save_model", "log_results"} \subseteq xcom
            /\ fs[model_dir] = CompletePair(run))
    /\ \A r \in 1..MaxRuns : (run = r) ~> (run = r /\ RunEnded)

C25_Witness ==
    /\ run = 1
    /\ task["log_results"] = "success"
    /\ task["save_model"] = "success"
    /\ fs[model_dir] = CompletePair(1)
    /\ savePc = "idle"

====
